---- MODULE Spec2Model ----
(***************************************************************************)
(* The staging relay of src/src/index.ts: the process-wide txdb, the POST  *)
(* handler that stages a signed Safe transaction, and the on-chain nonce   *)
(* it reads.  A POST handler is suspended at each of its three awaits      *)
(* (encodeTransactionData, nonce, checkNSignatures), so one handler is     *)
(* four steps and the steps of different requests interleave.              *)
(***************************************************************************)
EXTENDS Integers, Sequences, FiniteSets, TLC

\* The limits of index.ts lines 30-31.  The source sets both to 100; the
\* model keeps the comparisons of the source and scales the values down so
\* that a namespace and a signature list can actually reach them.
MAX_SIGS == 2
MAX_TXNS_STAGED == 2

\* Bounds of the model.
NumHandlers == 2      \* POST requests that can be in flight together
MaxReceived == 4      \* signatures received in one behaviour, over all requests
NumPayloads == 3      \* distinct transaction payloads per nonce
MaxNonce == 2         \* largest nonce of a submitted transaction
MaxExecuted == 1      \* transactions the safe executes on chain in one behaviour
MaxBundle == 3        \* signatures in one submitted body

Handlers == 1..NumHandlers
Null == 0
Undefined == -1

\* ---------------------------------------------------------------- data

\* SafeTransaction: the payload fields (to, value, data, ...) as one number
\* and the _nonce field.
SafeTransaction == [payload : 1..NumPayloads, nonce : 0..MaxNonce]

\* The value of txs.get(digest) when the digest is not a key: undefined.
NoTx == [txn |-> [payload |-> 0, nonce |-> 0], sigs |-> <<>>]

\* A signature string <<signer, v>>: the part that determines the signer and
\* the trailing byte v.  v and v + 4 are two encodings of one signature.
\* Signer 1 signs in both encodings, signer 2 in one.
Signatures == {<<1, 27>>, <<1, 31>>, <<2, 27>>}

RECURSIVE SeqsUpTo(_, _)
SeqsUpTo(S, n) ==
    IF n = 0 THEN {<<>>}
    ELSE LET shorter == SeqsUpTo(S, n - 1)
         IN shorter \cup {Append(q, x) : q \in shorter, x \in S}

Range(q) == {q[i] : i \in 1..Len(q)}

\* The sigs arrays a request body carries: non-empty, no string twice.
Bundles ==
    {q \in SeqsUpTo(Signatures, MaxBundle) :
        Len(q) > 0 /\ Cardinality(Range(q)) = Len(q)}

\* ------------------------------------------------------- pure functions

\* ethers.keccak256(encodeTransactionData(...)): a function of the ten
\* transaction fields, distinct fields giving distinct digests.
DigestOf(txn) == txn.nonce * NumPayloads + txn.payload

\* index.ts 170-182: the sort key of a signature.  The trailing byte is
\* lowered by 4 when above 30, then the signer address is recovered.
RecoverAddress(sig) ==
    LET v == IF sig[2] > 30 THEN sig[2] - 4 ELSE sig[2]
    IN  2 * sig[1] + (v - 27)

\* lodash _.union(a, b): the values of a then b, each kept once (the first
\* occurrence), compared as strings.
RECURSIVE Uniq(_)
Uniq(q) ==
    IF q = <<>> THEN <<>>
    ELSE LET front == Uniq(SubSeq(q, 1, Len(q) - 1))
             x == q[Len(q)]
         IN  IF x \in Range(front) THEN front ELSE Append(front, x)

Union(a, b) == Uniq(a \o b)

\* lodash orders undefined keys after every number.
KeyLeq(a, b) == b = Undefined \/ (a # Undefined /\ a <= b)

\* lodash _.sortBy: a stable ascending sort of q by the keys the iteratee
\* gave, keys[i] for q[i].  The element at index i comes after every element
\* with a smaller key and after the elements of equal key that precede it
\* in q.
SortBy(q, keys) ==
    LET Before(j, i) ==
            \/ ~KeyLeq(keys[i], keys[j])
            \/ (KeyLeq(keys[j], keys[i]) /\ KeyLeq(keys[i], keys[j]) /\ j < i)
        Rank(i) == 1 + Cardinality({j \in 1..Len(q) : Before(j, i)})
    IN  [p \in 1..Len(q) |-> q[CHOOSE i \in 1..Len(q) : Rank(i) = p]]

\* The merge without the staged signatures: the incoming ones, sorted.
MergeSigsIncomingOnly(incoming, existing) ==
    SortBy(incoming, [i \in 1..Len(incoming) |-> RecoverAddress(incoming[i])])

\* index.ts 167-184: the merged signature list of an already-staged digest.
MergeSigs(incoming, existing) ==
    LET united == Union(incoming, existing)
    IN  SortBy(united, [i \in 1..Len(united) |-> RecoverAddress(united[i])])

\* ------------------------------------------------ Map<string, StagedTransaction>
\* A JavaScript Map is a sequence of [key, val] in insertion order.

MapHas(m, k) == \E i \in 1..Len(m) : m[i].key = k

MapGet(m, k) ==
    IF MapHas(m, k)
    THEN m[CHOOSE i \in 1..Len(m) : m[i].key = k].val
    ELSE NoTx

\* Map.set: an existing key keeps its place, a new key goes last.
MapSet(m, k, v) ==
    IF MapHas(m, k)
    THEN [i \in 1..Len(m) |-> IF m[i].key = k THEN [key |-> k, val |-> v] ELSE m[i]]
    ELSE Append(m, [key |-> k, val |-> v])

MapValues(m) == [i \in 1..Len(m) |-> m[i].val]

StagedNonces(m) == {m[i].val.txn.nonce : i \in 1..Len(m)}

\* ------------------------------------------------------ request parameters

\* The :chainId and :safeAddress of a request.  Chain 0 fails chainId < 1;
\* chain 2 is a positive id with no RPC endpoint; "0xabc" and "0xAbC" are the
\* lower-case and the checksummed spelling of one address, "0xdef" is a
\* second address, "0xzz" is no address.
ChainIds == {0, 1, 2}
Addresses == {"0xabc", "0xAbC", "0xzz", "0xdef"}
Chains == {1}

IsAddress(a) == a \in {"0xabc", "0xAbC", "0xdef", "0xDeF"}
ToLowerCase(a) ==
    IF a = "0xAbC" THEN "0xabc" ELSE IF a = "0xDeF" THEN "0xdef" ELSE a
GetAddress(a) ==
    IF a = "0xabc" THEN "0xAbC" ELSE IF a = "0xdef" THEN "0xDeF" ELSE a

NoParams == [chainId |-> 0, safeAddress |-> ""]

\* index.ts 78-84
parseSafeParams(chainId, safeAddress) ==
    IF chainId < 1 THEN NoParams
    ELSE IF ~IsAddress(safeAddress) THEN NoParams
    ELSE [chainId |-> chainId, safeAddress |-> GetAddress(ToLowerCase(safeAddress))]

\* The key made of the chain id alone.
getSafeKeyChainOnly(chainId, safeAddress) == <<chainId, "0xabc">>

\* index.ts 62-64
getSafeKey(chainId, safeAddress) == <<chainId, ToLowerCase(safeAddress)>>

\* The keys txdb can get for requests that name one of addresses.
KeysOf(addresses) ==
    {getSafeKey(c, a) : c \in Chains, a \in {x \in addresses : IsAddress(x)}}

SafeKeys == KeysOf(Addresses)
NoKey == <<0, "">>

MapRefs == 1..(NumHandlers + Cardinality(SafeKeys))

\* ---------------------------------------------------------------- state

VARIABLES
    txdb,       \* index.ts 35: safe key -> reference of its Map, or Null
    heap,       \* the Map objects: reference -> Map content
    providers,  \* index.ts 36: the chain ids that have a provider object
    nonce,      \* the Safe contract's nonce on chain, per safe
    req,        \* the POST handlers: where each stands and its locals
    response,   \* the response sent by the last step, if it sent one
    received    \* signatures received so far (a request refused for its
                \* parameters counts for one)

vars == <<txdb, heap, providers, nonce, req, response, received>>

\* The locals of a handler that is not running.
Idle ==
    [pc |-> "idle", key |-> NoKey, txn |-> NoTx.txn, submitted |-> <<>>, sigs |-> <<>>,
     txs |-> Null, existingTx |-> NoTx, currentNonce |-> 0, err |-> ""]

NoResponse == [handler |-> 0, res |-> "", sent |-> <<>>, locals |-> Idle]

\* res.status(..).send(..) of handler h: the response, with the locals the
\* handler had when it sent it.
Send(h, res, sent, locals) == [handler |-> h, res |-> res, sent |-> sent, locals |-> locals]

\* A Map object no variable refers to any more is collected: its cell of the
\* heap is empty again.
Collect(db, hp, rq) ==
    LET live == {db[k] : k \in SafeKeys} \cup {rq[h].txs : h \in Handlers}
    IN  [r \in MapRefs |-> IF r \in live THEN hp[r] ELSE <<>>]

\* new Map(): a reference nothing refers to.
NewMap ==
    LET live == {txdb[k] : k \in SafeKeys} \cup {req[h].txs : h \in Handlers}
    IN  CHOOSE r \in MapRefs : r \notin live /\ \A q \in MapRefs : q \notin live => r <= q

\* txdb.get(key) as a Map content: what the namespace holds.
Staged(db, hp, k) == IF db[k] = Null THEN <<>> ELSE hp[db[k]]

Init ==
    /\ txdb = [k \in SafeKeys |-> Null]
    /\ heap = [r \in MapRefs |-> <<>>]
    /\ providers = {}
    /\ nonce = [k \in SafeKeys |-> 0]
    /\ req = [h \in Handlers |-> Idle]
    /\ response = NoResponse
    /\ received = 0

\* index.ts 44-60: whether getProvider returns a provider for the chain id.
getProvider(chainId) == chainId \in providers \/ chainId \in Chains

\* index.ts 217: the response body of a successful POST.  The sort key
\* t._nonce is read on the StagedTransaction, which has the fields txn and
\* sigs only.
TopLevelNonce(t) == IF "nonce" \in DOMAIN t THEN t.nonce ELSE Undefined

PostResponse(m) ==
    LET values == MapValues(m)
    IN  SortBy(values, [i \in 1..Len(values) |-> TopLevelNonce(values[i])])

\* The clean-up loop with the nonce test dropped: stale entries stay.
CleanUpKeepsStale(m, digest, txn, currentNonce) ==
    SelectSeq(m, LAMBDA e : ~(e.key # digest /\ e.val.txn = txn))

\* The clean-up loop with <= for <: an entry at the current nonce goes too.
CleanUpAtNonce(m, digest, txn, currentNonce) ==
    LET Deleted(e) ==
            \/ e.val.txn.nonce <= currentNonce
            \/ (e.key # digest /\ e.val.txn = txn)
    IN  SelectSeq(m, LAMBDA e : ~Deleted(e))

\* index.ts 205-213: the clean-up loop after txs.set(digest, signedTransactionInfo).
\* The entry under digest is the object just written; every other entry is
\* another object.
CleanUp(m, digest, txn, currentNonce) ==
    LET Deleted(e) ==
            \/ e.val.txn.nonce < currentNonce
            \/ (e.key # digest /\ e.val.txn = txn)
    IN  SelectSeq(m, LAMBDA e : ~Deleted(e))

\* The checks of a new digest without the test for a staged nonce - 1.
NewTxnErrorNoGap(m, txn, currentNonce) ==
    IF Len(m) > MAX_TXNS_STAGED THEN "TooManyStaged"
    ELSE IF txn.nonce < currentNonce THEN "NonceTooLow"
    ELSE ""

\* The checks of a new digest with the test against the current nonce off by
\* one: only a nonce below currentNonce - 1 is refused.
NewTxnErrorAtNonce(m, txn, currentNonce) ==
    IF Len(m) > MAX_TXNS_STAGED THEN "TooManyStaged"
    ELSE IF txn.nonce + 1 < currentNonce THEN "NonceTooLow"
    ELSE IF txn.nonce > currentNonce /\ (txn.nonce - 1) \notin StagedNonces(m)
         THEN "NonceGap"
    ELSE ""

\* The checks of a new digest with the gap test satisfied by any staged
\* proposal, whatever its nonce.
NewTxnErrorAnyStaged(m, txn, currentNonce) ==
    IF Len(m) > MAX_TXNS_STAGED THEN "TooManyStaged"
    ELSE IF txn.nonce < currentNonce THEN "NonceTooLow"
    ELSE IF txn.nonce > currentNonce /\ StagedNonces(m) = {} THEN "NonceGap"
    ELSE ""

\* index.ts 144-163: the checks of a digest that has no entry.  "" when the
\* submission passes them.
NewTxnError(m, txn, currentNonce) ==
    IF Len(m) > MAX_TXNS_STAGED THEN "TooManyStaged"
    ELSE IF txn.nonce < currentNonce THEN "NonceTooLow"
    ELSE IF txn.nonce > currentNonce /\ (txn.nonce - 1) \notin StagedNonces(m)
         THEN "NonceGap"
    ELSE ""

\* index.ts 186-188: the check of a merged signature list.
MergedError(sigs) ==
    IF Len(sigs) > MAX_SIGS THEN "TooManySignatures" ELSE ""

\* ---------------------------------------------------------------- actions

\* The handler h sends res and returns.
Return(h, res, sent, locals) ==
    /\ req' = [req EXCEPT ![h] = Idle]
    /\ response' = Send(h, res, sent, locals)

\* index.ts 101-136: a POST arrives; the handler runs to its first await.
\* The request names one of addresses and its body is one of bodies, a set
\* of <<txn, sigs>>.  The handlers are interchangeable, so the request takes
\* the first idle one.
Post(h, addresses, bodies) ==
    /\ req[h].pc = "idle"
    /\ \A g \in Handlers : g < h => req[g].pc # "idle"
    /\ received < MaxReceived
    /\ UNCHANGED <<txdb, nonce>>
    /\ \E chainId \in ChainIds, safeAddress \in addresses, large \in BOOLEAN :
         LET p == parseSafeParams(chainId, safeAddress)
         IN  IF p = NoParams THEN
                 /\ Return(h, "InvalidAccount", <<>>, Idle)
                 /\ received' = received + 1
                 /\ UNCHANGED <<heap, providers>>
             ELSE IF large THEN
                 /\ Return(h, "TooLarge", <<>>, Idle)
                 /\ received' = received + 1
                 /\ UNCHANGED <<heap, providers>>
             ELSE IF ~getProvider(p.chainId) THEN
                 /\ Return(h, "UnsupportedAccount", <<>>, Idle)
                 /\ received' = received + 1
                 /\ UNCHANGED <<heap, providers>>
             ELSE
                 \E body \in bodies :
                     LET txn == body[1]
                         sigs == body[2]
                         key == getSafeKey(p.chainId, p.safeAddress)
                         txs == IF txdb[key] # Null THEN txdb[key] ELSE NewMap
                     IN  /\ received + Len(sigs) <= MaxReceived
                         /\ received' = received + Len(sigs)
                         /\ providers' = providers \cup {p.chainId}
                         /\ req' = [req EXCEPT ![h] =
                                [Idle EXCEPT !.pc = "encode", !.key = key, !.txn = txn,
                                             !.submitted = sigs, !.sigs = sigs, !.txs = txs]]
                         /\ response' = NoResponse
                         /\ UNCHANGED heap

\* index.ts 125-142: encodeTransactionData answers; the handler looks the
\* digest up in txs and calls nonce().  A call that throws ends in the outer
\* catch (line 218).
Digest(h) ==
    /\ req[h].pc = "encode"
    /\ UNCHANGED <<txdb, providers, nonce, received>>
    /\ \E answered \in BOOLEAN :
         IF ~answered THEN
             /\ Return(h, "InternalError", <<>>, [req[h] EXCEPT !.err = "unavailable"])
             /\ heap' = Collect(txdb, heap, req')
         ELSE
             /\ req' = [req EXCEPT ![h].pc = "nonce",
                                   ![h].existingTx = MapGet(heap[req[h].txs], DigestOf(req[h].txn))]
             /\ response' = NoResponse
             /\ UNCHANGED heap

\* index.ts 142-197: nonce() answers; the handler checks the submission,
\* merges the signatures of a staged digest and calls checkNSignatures.
Nonce(h) ==
    /\ req[h].pc = "nonce"
    /\ UNCHANGED <<txdb, providers, nonce, received>>
    /\ \E answered \in BOOLEAN :
         LET r == req[h]
             currentNonce == nonce[r.key]
             sigs == IF r.existingTx = NoTx THEN r.sigs
                     ELSE MergeSigs(r.sigs, r.existingTx.sigs)
             error == IF r.existingTx = NoTx
                      THEN NewTxnError(heap[r.txs], r.txn, currentNonce)
                      ELSE MergedError(sigs)
             locals == [r EXCEPT !.sigs = sigs, !.currentNonce = currentNonce]
         IN  IF ~answered THEN
                 /\ Return(h, "InternalError", <<>>, [r EXCEPT !.err = "unavailable"])
                 /\ heap' = Collect(txdb, heap, req')
             ELSE IF error # "" THEN
                 /\ Return(h, error, <<>>, locals)
                 /\ heap' = Collect(txdb, heap, req')
             ELSE
                 /\ req' = [req EXCEPT ![h] = [locals EXCEPT !.pc = "check"]]
                 /\ response' = NoResponse
                 /\ UNCHANGED heap

\* How the promise of checkNSignatures settles: it resolves, it rejects
\* because the contract call reverts (the bundle fails the check), or it
\* rejects because the RPC endpoint cannot be reached.
CheckAnswers == {"accepts", "reverts", "unavailable"}

\* The last step with txs.set moved before the await: a rejected bundle
\* stays written in the Map.
CheckWritesFirst(h) ==
    /\ req[h].pc = "check"
    /\ UNCHANGED <<providers, nonce, received>>
    /\ \E answer \in CheckAnswers :
         LET r == req[h]
             digest == DigestOf(r.txn)
             written == MapSet(heap[r.txs], digest, [txn |-> r.txn, sigs |-> r.sigs])
             cleaned == CleanUp(written, digest, r.txn, r.currentNonce)
         IN  IF answer # "accepts" THEN
                 /\ Return(h, "InvalidSignature", <<>>, [r EXCEPT !.err = answer])
                 /\ heap' = Collect(txdb, [heap EXCEPT ![r.txs] = written], req')
                 /\ UNCHANGED txdb
             ELSE
                 /\ txdb' = [txdb EXCEPT ![r.key] = r.txs]
                 /\ Return(h, "ok", PostResponse(cleaned), r)
                 /\ heap' = Collect(txdb', [heap EXCEPT ![r.txs] = cleaned], req')

\* index.ts 198-217: checkNSignatures answers.  When it throws, for either
\* reason, the handler answers "invalid signature"; otherwise it writes the entry, cleans the
\* Map up, stores the Map under the safe key and sends the Map's values.
Check(h) ==
    /\ req[h].pc = "check"
    /\ UNCHANGED <<providers, nonce, received>>
    /\ \E answer \in CheckAnswers :
         LET r == req[h]
             digest == DigestOf(r.txn)
             written == MapSet(heap[r.txs], digest, [txn |-> r.txn, sigs |-> r.sigs])
             cleaned == CleanUp(written, digest, r.txn, r.currentNonce)
         IN  IF answer # "accepts" THEN
                 /\ Return(h, "InvalidSignature", <<>>, [r EXCEPT !.err = answer])
                 /\ heap' = Collect(txdb, heap, req')
                 /\ UNCHANGED txdb
             ELSE
                 /\ txdb' = [txdb EXCEPT ![r.key] = r.txs]
                 /\ Return(h, "ok", PostResponse(cleaned), r)
                 /\ heap' = Collect(txdb', [heap EXCEPT ![r.txs] = cleaned], req')

\* The response body of a GET with the sort key of the POST response.
GetResponseByTopLevel(m) ==
    LET values == MapValues(m)
    IN  SortBy(values, [i \in 1..Len(values) |-> TopLevelNonce(values[i])])

\* index.ts 93-98: the response body of a GET, the Map's values sorted by
\* t.txn._nonce.
GetResponse(m) ==
    LET values == MapValues(m)
    IN  SortBy(values, [i \in 1..Len(values) |-> values[i].txn.nonce])

\* index.ts 86-99: a GET for one of addresses.  The handler has no await: it
\* is one step.  It asks for no provider, so a chain without one is read
\* like any other: txdb has no Map under its key.
Get(addresses) ==
    /\ UNCHANGED <<txdb, heap, providers, nonce, req, received>>
    /\ \E chainId \in ChainIds, safeAddress \in addresses :
         LET p == parseSafeParams(chainId, safeAddress)
             key == getSafeKey(p.chainId, p.safeAddress)
             txs == IF key \in SafeKeys THEN Staged(txdb, heap, key) ELSE <<>>
         IN  response' =
                 IF p = NoParams THEN Send(Null, "InvalidAccount", <<>>, Idle)
                 ELSE Send(Null, "list", GetResponse(txs), [Idle EXCEPT !.key = key])

\* index.ts 125, 142, 192: the promise of the contract call the handler
\* awaits never settles.  The await has no timeout of its own, so the
\* handler stays suspended: it sends nothing and keeps its locals.
Hang(h) ==
    /\ req[h].pc \in {"encode", "nonce", "check"}
    /\ req' = [req EXCEPT ![h].pc = "hung"]
    /\ response' = NoResponse
    /\ UNCHANGED <<txdb, heap, providers, nonce, received>>

\* A transaction of the safe executes on chain.
Execute(k) ==
    /\ nonce[k] < MaxExecuted
    /\ nonce' = [nonce EXCEPT ![k] = @ + 1]
    /\ response' = NoResponse
    /\ UNCHANGED <<txdb, heap, providers, req, received>>

\* The addresses of requests that all concern one safe: its two spellings,
\* and a string that is no address.
OneSafe == {"0xabc", "0xAbC", "0xzz"}

\* The bodies of the interleaved specification: every payload at nonce 0 and
\* payload 1 at every nonce, signed by signer 1; payload 1 at nonce 0 also in
\* signer 1's other encoding and by signer 2.
OverlapBodies ==
    {<<t, << <<1, 27>> >> >> : t \in {u \in SafeTransaction : u.payload = 1 \/ u.nonce = 0}}
    \cup {<<[payload |-> 1, nonce |-> 0], <<s>> >> : s \in Signatures}

\* Requests overlap: up to NumHandlers handlers are in flight and their
\* steps interleave.
Next ==
    \/ \E h \in Handlers : Post(h, OneSafe, OverlapBodies)
    \/ \E h \in Handlers : Digest(h)
    \/ \E h \in Handlers : Nonce(h)
    \/ \E h \in Handlers : Check(h)
    \/ \E k \in KeysOf(OneSafe) : Execute(k)

Spec == Init /\ [][Next]_vars

\* The bodies of the serial specification: two payloads at every nonce, with
\* any bundle.
SerialBodies == {t \in SafeTransaction : t.payload <= 2} \X Bundles

\* Requests arrive one after the other: a request is received when no handler
\* is in flight.
SerialNext ==
    \/ Post(1, OneSafe, SerialBodies)
    \/ Digest(1)
    \/ Nonce(1)
    \/ Check(1)
    \/ \E k \in KeysOf(OneSafe) : Execute(k)

SerialSpec == Init /\ [][SerialNext]_vars

\* Reads among requests that arrive one after the other: a GET is served at
\* any moment, also while a POST handler is suspended.
ReadNext ==
    \/ Post(1, OneSafe, OverlapBodies)
    \/ Digest(1)
    \/ Nonce(1)
    \/ Check(1)
    \/ Get(OneSafe)
    \/ \E k \in KeysOf(OneSafe) : Execute(k)

ReadSpec == Init /\ [][ReadNext]_vars

\* The bodies of the specification with two safes: one payload at nonces 0
\* and 1, signed by signer 1.
TwoSafeBodies ==
    {<<t, << <<1, 27>> >> >> : t \in {u \in SafeTransaction : u.payload = 1 /\ u.nonce <= 1}}

\* Overlapping requests for two safes: every address is named.
TwoSafeNext ==
    \/ \E h \in Handlers : Post(h, Addresses, TwoSafeBodies)
    \/ \E h \in Handlers : Digest(h)
    \/ \E h \in Handlers : Nonce(h)
    \/ \E h \in Handlers : Check(h)
    \/ \E k \in SafeKeys : Execute(k)

TwoSafeSpec == Init /\ [][TwoSafeNext]_vars

\* Overlapping requests whose contract calls may also never be answered.
LiveNext ==
    \/ \E h \in Handlers : Post(h, OneSafe, TwoSafeBodies)
    \/ \E h \in Handlers : Digest(h)
    \/ \E h \in Handlers : Nonce(h)
    \/ \E h \in Handlers : Check(h)
    \/ \E h \in Handlers : Hang(h)
    \/ \E k \in KeysOf(OneSafe) : Execute(k)

\* The event loop runs a handler's continuation once the awaited promise has
\* settled: a pending call that is not one that never settles is answered,
\* and the handler then takes its next step.
LiveSpec ==
    /\ Init
    /\ [][LiveNext]_vars
    /\ \A h \in Handlers :
         WF_vars(Digest(h)) /\ WF_vars(Nonce(h)) /\ WF_vars(Check(h))

\* --------------------------------------------------------------- claims

\* What each namespace holds: the content of the Map stored under its key.
Store == [k \in SafeKeys |-> Staged(txdb, heap, k)]

\* The step is handler h's last one and its response is the staged set.
Commits(h) == req[h].pc = "check" /\ response'.handler = h /\ response'.res = "ok"

\* The step is handler h's continuation after nonce() answered.
ReadsNonce(h) ==
    /\ req[h].pc = "nonce"
    /\ req'[h].pc # "nonce"
    /\ ~(response'.handler = h /\ response'.res = "InternalError")

NoDuplicates(q) == Cardinality(Range(q)) = Len(q)

\* C1: when two stage operations on one digest with disjoint signatures
\* both succeed, the staged proposal holds every signature of both, each
\* once: at the commit of the operation that finishes second, the entry
\* holds the signatures staged by the first and the ones it submitted.
C1_UnionOfBoth ==
    [][\A h \in Handlers :
          LET r == req[h]
              before == MapGet(Staged(txdb, heap, r.key), DigestOf(r.txn))
              after == MapGet(Staged(txdb', heap', r.key), DigestOf(r.txn))
          IN  (/\ Commits(h)
               /\ before # NoTx
               /\ after # NoTx
               /\ Range(before.sigs) \cap Range(r.submitted) = {})
              => /\ Range(after.sigs) = Range(before.sigs) \cup Range(r.submitted)
                 /\ NoDuplicates(after.sigs)]_vars

C4_FailureLeavesStore ==
    [][/\ (response'.res \notin {"", "ok"} => txdb' = txdb /\ Store' = Store)
       /\ (Store' # Store \/ txdb' # txdb => response'.res = "ok")]_vars

\* C4 witness: the threshold check has just rejected a merged bundle that
\* differs from the staged one, and the staged proposal still holds its
\* previous signatures.
C4_Witness ==
    /\ response.res = "InvalidSignature"
    /\ response.locals.existingTx # NoTx
    /\ response.locals.sigs # response.locals.existingTx.sigs
    /\ MapGet(Store[response.locals.key], DigestOf(response.locals.txn))
           = response.locals.existingTx

\* C5: right after a successful commit, no proposal staged in the namespace
\* has a nonce below the on-chain nonce the operation read.
C5_NoStaleAfterCommit ==
    [][\A h \in Handlers :
          Commits(h) =>
              \A n \in StagedNonces(Staged(txdb', heap', req[h].key)) :
                  n >= req[h].currentNonce]_vars

\* C5 witness: a commit that read nonce 1 has just answered; another handler
\* had found its nonce-0 proposal, a different one, staged in the namespace's
\* Map, and no nonce-0 proposal is staged any more.
C5_Witness ==
    \E g \in Handlers :
        /\ response.res = "ok"
        /\ response.locals.currentNonce = 1
        /\ response.locals.txn # req[g].txn
        /\ req[g].pc = "nonce"
        /\ req[g].existingTx # NoTx
        /\ req[g].existingTx.txn.nonce = 0
        /\ req[g].txs = txdb[req[g].key]
        /\ req[g].key = response.locals.key
        /\ 0 \notin StagedNonces(Store[req[g].key])

\* The entry handler h writes at its commit.
Written(h) == [txn |-> req[h].txn, sigs |-> req[h].sigs]

\* C6 as stated: after every successful stage the proposal just written is
\* live in the namespace and is in the returned set.
C6_JustWrittenLiveAsStated ==
    [][\A h \in Handlers :
          Commits(h) =>
              /\ MapGet(Staged(txdb', heap', req[h].key), DigestOf(req[h].txn)) = Written(h)
              /\ Written(h) \in Range(response'.sent)]_vars

\* C6 amended: the proposal just written is live and returned whenever its
\* nonce is not below the on-chain nonce the operation read, which is the
\* case of every new digest.
C6_JustWrittenLive ==
    [][\A h \in Handlers :
          (Commits(h) /\ (req[h].existingTx = NoTx \/ req[h].txn.nonce >= req[h].currentNonce))
          => /\ MapGet(Staged(txdb', heap', req[h].key), DigestOf(req[h].txn)) = Written(h)
             /\ Written(h) \in Range(response'.sent)]_vars

\* C6 witness: a stage of an already-staged proposal whose nonce equals the
\* on-chain nonce read, 1, has just succeeded; the proposal is live with
\* the signatures written and is in the returned set.
C6_Witness ==
    LET l == response.locals
        e == [txn |-> l.txn, sigs |-> l.sigs]
    IN  /\ response.res = "ok"
        /\ l.existingTx # NoTx
        /\ l.currentNonce = 1
        /\ l.txn.nonce = 1
        /\ MapGet(Store[l.key], DigestOf(l.txn)) = e
        /\ e \in Range(response.sent)

\* C7: every namespace holds at most MAX_TXNS_STAGED proposals.
C7_AtMostMaxStaged == \A k \in SafeKeys : Len(Store[k]) <= MAX_TXNS_STAGED

\* C8: every staged proposal holds at most MAX_SIGS signatures.
C8_AtMostMaxSigs ==
    \A k \in SafeKeys : \A i \in 1..Len(Store[k]) :
        Len(Store[k][i].val.sigs) <= MAX_SIGS

\* C9: no staged proposal holds two signatures that recover to one signer.
C9_OneSignaturePerSigner ==
    \A k \in SafeKeys : \A i \in 1..Len(Store[k]) :
        LET sigs == Store[k][i].val.sigs
        IN  \A a, b \in 1..Len(sigs) :
                a # b => RecoverAddress(sigs[a]) # RecoverAddress(sigs[b])

\* index.ts 122-217 run without interruption, every contract call answering
\* and checkNSignatures accepting: the response and the Map afterwards.
Stage(m, txn, sigs, currentNonce) ==
    LET digest == DigestOf(txn)
        existingTx == MapGet(m, digest)
        merged == IF existingTx = NoTx THEN sigs ELSE MergeSigs(sigs, existingTx.sigs)
        error == IF existingTx = NoTx THEN NewTxnError(m, txn, currentNonce)
                 ELSE MergedError(merged)
        written == MapSet(m, digest, [txn |-> txn, sigs |-> merged])
    IN  IF error # "" THEN [res |-> error, map |-> m]
        ELSE [res |-> "ok", map |-> CleanUp(written, digest, txn, currentNonce)]

\* C10: from any store state, with the on-chain nonce fixed, two accepted
\* submissions A and B on one proposal leave the same signature sequence
\* for its digest in either order.
C10_OrderIndependent ==
    \A k \in SafeKeys : \A txn \in SafeTransaction : \A A, B \in Bundles :
        LET a == Stage(Store[k], txn, A, nonce[k])
            ab == Stage(a.map, txn, B, nonce[k])
            b == Stage(Store[k], txn, B, nonce[k])
            ba == Stage(b.map, txn, A, nonce[k])
        IN  (a.res = "ok" /\ ab.res = "ok" /\ b.res = "ok" /\ ba.res = "ok")
            => MapGet(ab.map, DigestOf(txn)).sigs = MapGet(ba.map, DigestOf(txn)).sigs

\* C11: a submission identical to the one that produced the staged entry
\* (same proposal, same signature list as stored), made while the proposal's
\* nonce is not below the on-chain nonce, is not refused by the handler's
\* checks, and when it commits it leaves the namespace, the digest's
\* signature sequence included, as it was.
C11_IdempotentMerge ==
    [][\A h \in Handlers :
          LET r == req[h]
              repeated == /\ r.existingTx # NoTx
                          /\ r.submitted = r.existingTx.sigs
                          /\ MapGet(heap[r.txs], DigestOf(r.txn)) = r.existingTx
                          /\ r.txn.nonce >= nonce[r.key]
          IN  /\ (ReadsNonce(h) /\ repeated) => response'.handler # h
              /\ (Commits(h) /\ repeated) => Staged(txdb', heap', r.key) = heap[r.txs]]_vars

\* The sequence of staged transactions is in non-decreasing order of nonce.
AscendingByNonce(q) ==
    \A i, j \in 1..Len(q) : i < j => q[i].txn.nonce <= q[j].txn.nonce

\* C12: the sequence a successful stage operation returns is ordered by
\* non-decreasing proposal nonce.
C12_ReturnedAscending ==
    (response.handler \in Handlers /\ response.res = "ok") => AscendingByNonce(response.sent)

\* The step is a GET answered with the staged set of the namespace key.
Lists(key) ==
    /\ response'.handler = Null
    /\ response'.res = "list"
    /\ response'.locals.key = key
    /\ req' = req

\* How many times x occurs in q.
Count(q, x) == Cardinality({i \in 1..Len(q) : q[i] = x})

\* C13: a read returns exactly the proposals stored in the namespace, each
\* once, in non-decreasing order of nonce, the empty sequence when the
\* namespace has none, and leaves txdb and every Map as they were.
C13_ReadIsPure ==
    [][\A key \in SafeKeys :
          Lists(key) =>
              /\ \A e \in Range(MapValues(Store[key])) \cup Range(response'.sent) :
                     Count(response'.sent, e) = Count(MapValues(Store[key]), e)
              /\ AscendingByNonce(response'.sent)
              /\ (Store[key] = <<>> => response'.sent = <<>>)
              /\ txdb' = txdb
              /\ heap' = heap]_vars

\* C13 witness: a read has returned three proposals in ascending order of
\* nonce from a namespace whose Map holds them in another order, while a
\* POST handler is suspended.
C13_Witness ==
    /\ response.handler = Null
    /\ response.res = "list"
    /\ Len(response.sent) = 3
    /\ response.sent # MapValues(Store[response.locals.key])
    /\ AscendingByNonce(response.sent)
    /\ \E h \in Handlers : req[h].pc = "check"

\* C14 as stated: with one stage operation at a time, a successful stage on
\* an already-staged digest leaves under that digest exactly the signatures
\* stored before and the ones submitted.
C14_MergeIsUnionAsStated ==
    [][\A h \in Handlers :
          LET r == req[h]
              before == MapGet(Store[r.key], DigestOf(r.txn))
              after == MapGet(Staged(txdb', heap', r.key), DigestOf(r.txn))
          IN  (Commits(h) /\ before # NoTx)
              => Range(after.sigs) = Range(before.sigs) \cup Range(r.submitted)]_vars

\* C14 amended: the digest's entry holds exactly the signatures stored
\* before and the ones submitted, each once, when the proposal's nonce is
\* not below the on-chain nonce the operation read; when it is below, the
\* entry is gone after the operation.
C14_MergeIsUnion ==
    [][\A h \in Handlers :
          LET r == req[h]
              before == MapGet(Store[r.key], DigestOf(r.txn))
              after == MapGet(Staged(txdb', heap', r.key), DigestOf(r.txn))
          IN  (Commits(h) /\ before # NoTx)
              => IF r.txn.nonce >= r.currentNonce
                 THEN /\ Range(after.sigs) = Range(before.sigs) \cup Range(r.submitted)
                      /\ NoDuplicates(after.sigs)
                 ELSE after = NoTx]_vars

\* C14 witness: a stage on a staged digest has just succeeded, the
\* submission and the entry each held a signature the other did not, and
\* the entry now holds the signatures of both.
C14_Witness ==
    LET l == response.locals
        stored == MapGet(Store[l.key], DigestOf(l.txn))
    IN  /\ response.res = "ok"
        /\ l.existingTx # NoTx
        /\ Range(l.submitted) \ Range(l.existingTx.sigs) # {}
        /\ Range(l.existingTx.sigs) \ Range(l.submitted) # {}
        /\ Range(stored.sigs) = Range(l.existingTx.sigs) \cup Range(l.submitted)

\* C15: a stage operation whose oracle call failed because the endpoint
\* could not be reached answers with the error of an unavailable oracle
\* (the code's only such answer is the internal error of the outer catch),
\* and the invalid-signature error is sent only when the contract rejected
\* the bundle.
C15_TransientNotInvalid ==
    /\ response.locals.err = "unavailable" => response.res = "InternalError"
    /\ response.res = "InvalidSignature" => response.locals.err = "reverts"

\* C16: in every namespace, every staged proposal whose nonce n is above
\* the on-chain nonce has a staged proposal with nonce n - 1.
C16_UnbrokenChain ==
    \A k \in SafeKeys : \A n \in StagedNonces(Store[k]) :
        n > nonce[k] => (n - 1) \in StagedNonces(Store[k])

\* C16 witness: the Safe has executed a transaction (on-chain nonce 1), the
\* nonce-0 proposal has been removed, and the namespace holds a proposal
\* above the on-chain nonce, nonce 2, together with its link, nonce 1.
C16_Witness ==
    \E k \in SafeKeys :
        /\ nonce[k] = 1
        /\ StagedNonces(Store[k]) = {1, 2}

\* C17: the signatures of every staged proposal are stored in ascending
\* order of recovered signer address.  Two signatures of one signer, which
\* C9 is about, are not counted against the order here: the claim's strict
\* order implies this one.
C17_CanonicalOrder ==
    \A k \in SafeKeys : \A i \in 1..Len(Store[k]) :
        LET sigs == Store[k][i].val.sigs
        IN  \A a, b \in 1..Len(sigs) :
                a < b => RecoverAddress(sigs[a]) <= RecoverAddress(sigs[b])

\* C18: stage operations on a namespace behave as if run one at a time.  In
\* every serial order a committed proposal stays staged until a commit that
\* read a higher on-chain nonce removes it, so: a commit leaves in the
\* namespace every proposal of another digest that was staged before it and
\* whose nonce is not below the on-chain nonce the committing operation read.
C18_AsIfSerialized ==
    [][\A h \in Handlers :
          LET r == req[h]
              before == Store[r.key]
              after == Staged(txdb', heap', r.key)
          IN  Commits(h) =>
                  \A i \in 1..Len(before) :
                      (/\ before[i].key # DigestOf(r.txn)
                       /\ before[i].val.txn.nonce >= r.currentNonce)
                      => MapGet(after, before[i].key) = before[i].val]_vars

\* The spellings of each account address: lower case and checksummed.
Spellings == {{"0xabc", "0xAbC"}, {"0xdef", "0xDeF"}}

\* Two address strings are equal ignoring letter case.
SameIgnoringCase(a, b) == \E S \in Spellings : a \in S /\ b \in S

\* The namespace key a request with these parameters works on.
KeyOfRequest(chainId, safeAddress) ==
    LET p == parseSafeParams(chainId, safeAddress)
    IN  getSafeKey(p.chainId, p.safeAddress)

\* Two requests with valid parameters work on the same namespace exactly
\* when their chain ids are equal and their addresses are equal ignoring
\* letter case.
SameNamespaceRule ==
    \A c1, c2 \in ChainIds : \A a1, a2 \in Addresses :
        (parseSafeParams(c1, a1) # NoParams /\ parseSafeParams(c2, a2) # NoParams)
        => ((KeyOfRequest(c1, a1) = KeyOfRequest(c2, a2))
            <=> (c1 = c2 /\ SameIgnoringCase(a1, a2)))

\* C19: a step of a stage operation leaves every namespace other than the
\* operation's own as it was; and two requests with valid parameters work on
\* the same namespace exactly when their chain ids are equal and their
\* addresses are equal ignoring letter case.
C19_OtherNamespacesUntouched ==
    [][/\ \A h \in Handlers :
            LET own == IF req[h].pc = "idle" THEN req'[h].key ELSE req[h].key
            IN  req'[h] # req[h] =>
                    \A k \in SafeKeys \ {own} :
                        Store'[k] = Store[k] /\ txdb'[k] = txdb[k]
       /\ SameNamespaceRule]_vars

\* C19 witness: a stage on the safe 0xdef has just committed while a stage
\* on the safe 0xabc, whose namespace holds a proposal, is suspended before
\* its commit.
C19_Witness ==
    /\ response.res = "ok"
    /\ response.locals.key = <<1, "0xdef">>
    /\ Store[<<1, "0xabc">>] # <<>>
    /\ \E g \in Handlers : req[g].pc = "check" /\ req[g].key = <<1, "0xabc">>

\* C20: every stage operation eventually finishes: a handler that has
\* received a request eventually sends its response and returns, also when
\* a contract call it awaits is never answered.
C20_EventuallyFinishes ==
    \A h \in Handlers : (req[h].pc # "idle") ~> (req[h].pc = "idle")

====
